---- MODULE Spec2Model ----
(***************************************************************************)
(* Verification model of fp-bindgen's host-side generators:                *)
(*   - the FatPtr helpers emitted into the TS runtime (index.ts),          *)
(*   - the emitted TS runtime's async protocol (promises registry,         *)
(*     async-value records, import callbacks, export wrappers),            *)
(*   - the import callback emitted by the wasmer runtime generator,        *)
(*   - the boundary shape each generator emits for a function signature.   *)
(*   - one run of the generation entry point and the TS type declarations, *)
(*   - a generated runtime loading a guest module and calling an export.   *)
(* Integers wider than TLC's are kept exact as little-endian sequences of  *)
(* 16-bit limbs.                                                           *)
(***************************************************************************)
EXTENDS Integers, Sequences, FiniteSets, TLC

VARIABLES
    fp,        \* FatPtr helpers: inputs, packed value, unpacked pair
    gen,       \* generators: a function signature and what each emits for it
    run,       \* one run of generate_bindings: target, types, position, files
    load,      \* one generated runtime loading a guest module and calling it
    host,      \* which generated host runtime is running: "ts", "wasmer" or "off"
    mem,       \* the guest's linear memory, one entry per allocation
    promises,  \* TS runtime: the promises registry, keyed by FatPtr
    call,      \* TS runtime: the async export wrapper's position
    imp,       \* one entry per async import call, keyed by its record's ptr
    last       \* TS runtime: what the latest resolvePromise call did

vars == <<fp, gen, run, load, host, mem, promises, call, imp, last>>

rtvars == <<host, mem, promises, call, imp, last>>

(***************************************************************************)
(* Exact integers as little-endian 16-bit limb sequences (no high zeros).  *)
(***************************************************************************)

\* How many of the sample 16-bit limbs the FatPtr inputs are built from.
NumLimbSamples == 4

LimbSampleSeq == <<0, 1, 65535, 32768, 255, 4660>>

LimbSamples == { LimbSampleSeq[i] : i \in 1 .. NumLimbSamples }

RECURSIVE Canon(_)
Canon(b) ==
    IF b = <<>> THEN <<>>
    ELSE IF b[Len(b)] = 0 THEN Canon(SubSeq(b, 1, Len(b) - 1))
    ELSE b

\* A JS number holding an unsigned 32-bit integer, from its two limbs.
U32(lo, hi) == Canon(<<lo, hi>>)

\* BigInt(n) for an integral number n: the same integer.
BigIntOf(n) == Canon(n)

RECURSIVE OrBits(_, _)
OrBits(a, b) ==
    IF a = 0 THEN b
    ELSE IF b = 0 THEN a
    ELSE (IF a % 2 = 1 \/ b % 2 = 1 THEN 1 ELSE 0) + 2 * OrBits(a \div 2, b \div 2)

RECURSIVE AndBits(_, _)
AndBits(a, b) ==
    IF a = 0 \/ b = 0 THEN 0
    ELSE (IF a % 2 = 1 /\ b % 2 = 1 THEN 1 ELSE 0) + 2 * AndBits(a \div 2, b \div 2)

LimbAt(b, i) == IF i <= Len(b) THEN b[i] ELSE 0

\* a | b on non-negative BigInts.
BigOr(a, b) ==
    LET n == IF Len(a) > Len(b) THEN Len(a) ELSE Len(b)
    IN  Canon([i \in 1 .. n |-> OrBits(LimbAt(a, i), LimbAt(b, i))])

\* a & b on non-negative BigInts.
BigAnd(a, b) ==
    LET n == IF Len(a) < Len(b) THEN Len(a) ELSE Len(b)
    IN  Canon([i \in 1 .. n |-> AndBits(a[i], b[i])])

\* a << bits, bits a multiple of the limb width.
BigShl(a, bits) ==
    IF Canon(a) = <<>> THEN <<>>
    ELSE [i \in 1 .. (bits \div 16) |-> 0] \o Canon(a)

\* a >> bits on a non-negative BigInt, bits a multiple of the limb width.
BigShr(a, bits) ==
    IF Len(a) <= bits \div 16 THEN <<>>
    ELSE Canon(SubSeq(a, (bits \div 16) + 1, Len(a)))

\* 0xffff_ffffn
Mask32 == <<65535, 65535>>

\* Long division of a limb sequence by ten: <<quotient, remainder>>.
RECURSIVE DivStep(_, _, _, _)
DivStep(b, i, rem, q) ==
    IF i = 0 THEN <<Canon(q), rem>>
    ELSE LET t == rem * 65536 + b[i]
         IN  DivStep(b, i - 1, t % 10, <<t \div 10>> \o q)

DivMod10(b) == DivStep(b, Len(b), 0, <<>>)

RECURSIVE Digits(_)
Digits(b) ==
    IF b = <<>> THEN <<>>
    ELSE LET dm == DivMod10(b) IN Digits(dm[1]) \o <<dm[2]>>

\* BigInt.prototype.toString(): the decimal digits, most significant first.
BigToString(b) == IF Canon(b) = <<>> THEN <<0>> ELSE Digits(Canon(b))

RECURSIVE MulStep(_, _, _)
MulStep(b, i, carry) ==
    IF i > Len(b) THEN (IF carry = 0 THEN <<>> ELSE <<carry>>)
    ELSE LET t == b[i] * 10 + carry
         IN  <<t % 65536>> \o MulStep(b, i + 1, t \div 65536)

RECURSIVE ParseDigits(_, _, _)
ParseDigits(s, i, acc) ==
    IF i > Len(s) THEN Canon(acc)
    ELSE ParseDigits(s, i + 1, MulStep(acc, 1, s[i]))

\* Number.parseInt(string) of a decimal digit string (exact below 2^53).
ParseInt(s) == ParseDigits(s, 1, <<>>)

(***************************************************************************)
(* fromFatPtr / toFatPtr as emitted into index.ts.                         *)
(***************************************************************************)

ToFatPtrLowShift(ptr, len) == BigOr(BigShl(BigIntOf(ptr), 16), BigIntOf(len))

toFatPtr(ptr, len) == BigOr(BigShl(BigIntOf(ptr), 32), BigIntOf(len))

fromFatPtr(fatPtr) ==
    << ParseInt(BigToString(BigShr(fatPtr, 32))),
       ParseInt(BigToString(BigAnd(fatPtr, Mask32))) >>

U32Samples == { U32(lo, hi) : lo \in LimbSamples, hi \in LimbSamples }

FpInit ==
    fp \in { [pc |-> "input", ptr |-> p, len |-> l, fat |-> <<>>, out |-> <<>>] :
             p \in U32Samples, l \in U32Samples }

FpIdle == fp = [pc |-> "off", ptr |-> <<>>, len |-> <<>>, fat |-> <<>>, out |-> <<>>]

Pack ==
    /\ fp.pc = "input"
    /\ fp' = [fp EXCEPT !.pc = "packed", !.fat = toFatPtr(fp.ptr, fp.len)]
    /\ UNCHANGED <<gen, run, load, rtvars>>

Unpack ==
    /\ fp.pc = "packed"
    /\ fp' = [fp EXCEPT !.pc = "unpacked", !.out = fromFatPtr(fp.fat)]
    /\ UNCHANGED <<gen, run, load, rtvars>>

NextFatPtr == Pack \/ Unpack


(***************************************************************************)
(* The generators: what each emits at the boundary for one function.       *)
(***************************************************************************)

\* Arguments of the function signatures generated for.
MaxArgs == 2

\* Type::Primitive(_) / TypeIdent::is_primitive(): the primitive types.
Primitives == {"Bool", "I32", "U64", "F64"}

\* Types of arguments and of return values; "Unit" is no return value.
ArgTypes == {"I32", "U64", "String"}

RetTypes == {"Unit", "Bool", "F64", "U64", "String", "Struct"}

\* TypeIdent::is_primitive()
IsPrimitive(ty) == ty \in Primitives

\* format_primitive
format_primitive(primitive) ==
    CASE primitive = "Bool" -> "boolean"
      [] primitive \in {"I32", "F64"} -> "number"
      [] OTHER -> "bigint"

\* type FatPtr = bigint; the TS types that are FatPtr.
TsFatPtrTypes == {"FatPtr", "bigint"}

\* format_wasm_ident
format_wasm_ident(ty) == IF IsPrimitive(ty) THEN <<"AbiType", ty>> ELSE <<"FatPtr">>

\* format_raw_ident
format_raw_ident(ty) == IF IsPrimitive(ty) THEN <<"ident", ty>> ELSE <<"Vec<u8>">>

\* format_import_arg
format_import_arg(ty) == IF IsPrimitive(ty) THEN "from_abi" ELSE "import_from_guest"

Signatures ==
    [ args : UNION { [1 .. n -> ArgTypes] : n \in 0 .. MaxArgs },
      ret : RetTypes,
      is_async : BOOLEAN ]

\* ts_runtime format_import_wrappers: the __fp_gen_<name> callback.
TsImportWrapper(f) ==
    [ form |-> "callback",
      params |-> [i \in DOMAIN f.args |->
                    IF IsPrimitive(f.args[i]) THEN format_primitive(f.args[i]) ELSE "FatPtr"],
      arg_conv |-> [i \in DOMAIN f.args |->
                      IF IsPrimitive(f.args[i]) THEN "value" ELSE "parseObject"],
      ret |-> CASE f.ret = "Unit" -> ""
                [] IsPrimitive(f.ret) -> format_primitive(f.ret)
                [] OTHER -> "FatPtr",
      ret_conv |-> IF f.is_async
                   THEN (IF f.ret = "Unit" THEN "resolveFuture"
                         ELSE "assignAsyncValue, resolveFuture")
                   ELSE CASE f.ret = "Unit" -> "none"
                          [] IsPrimitive(f.ret) -> "value"
                          [] OTHER -> "serializeObject",
      returns |-> IF f.is_async THEN "_async_result_ptr"
                  ELSE IF f.ret = "Unit" THEN "nothing" ELSE "result" ]

\* export_args: the arguments format_export_wrappers serializes.
ExportArgs(f) == { i \in DOMAIN f.args : ~IsPrimitive(f.args[i]) }

\* Trivial functions can simply be returned as is.
IsTrivial(f) == ExportArgs(f) = {} /\ ~f.is_async

\* ts_runtime format_export_wrappers: the callable handed to the embedder.
TsExportWrapper(f) ==
    IF IsTrivial(f)
    THEN [ form |-> "passthrough",
           arg_conv |-> [i \in DOMAIN f.args |-> "value"],
           ret_conv |-> "raw" ]
    ELSE [ form |-> "wrapped",
           arg_conv |-> [i \in DOMAIN f.args |->
                           IF IsPrimitive(f.args[i]) THEN "value" ELSE "serializeObject"],
           ret_conv |-> IF f.is_async THEN "promiseFromPtr"
                        ELSE CASE f.ret = "Unit" -> "none"
                               [] IsPrimitive(f.ret) -> "raw"
                               [] OTHER -> "parseObject" ]

\* rust_wasmer_runtime format_export_function: the _<name> import callback.
WasmerImportCallback(f) ==
    [ form |-> "callback",
      params |-> [i \in DOMAIN f.args |-> format_wasm_ident(f.args[i])],
      arg_conv |-> [i \in DOMAIN f.args |-> format_import_arg(f.args[i])],
      ret |-> IF f.is_async THEN <<"FatPtr">>
              ELSE IF f.ret = "Unit" THEN <<>> ELSE format_wasm_ident(f.ret),
      ret_conv |-> IF f.is_async THEN "guest_resolve_async_value"
                   ELSE CASE f.ret = "Unit" -> "none"
                          [] IsPrimitive(f.ret) -> "to_abi"
                          [] OTHER -> "export_to_guest",
      returns |-> IF f.is_async THEN "async_ptr"
                  ELSE IF f.ret = "Unit" THEN "nothing" ELSE "result" ]

\* rust_wasmer_runtime format_import_function: the <name> and <name>_raw
\* methods of Runtime.
WasmerExportMethod(f) ==
    [ form |-> "method",
      raw_params |-> [i \in DOMAIN f.args |-> format_raw_ident(f.args[i])],
      params |-> [i \in DOMAIN f.args |-> format_wasm_ident(f.args[i])],
      arg_conv |-> [i \in DOMAIN f.args |->
                      IF IsPrimitive(f.args[i]) THEN "to_abi"
                      ELSE "serialize_to_vec, export_to_guest_raw"],
      ret |-> IF f.ret = "Unit" THEN <<>> ELSE format_wasm_ident(f.ret),
      ret_conv |-> IF f.is_async THEN "ModuleRawFuture, deserialize_from_slice"
                   ELSE IF f.ret # "Unit" /\ ~IsPrimitive(f.ret)
                   THEN "import_from_guest_raw, deserialize_from_slice"
                   ELSE "from_abi" ]

NoFn == [args |-> <<>>, ret |-> "Unit", is_async |-> FALSE]

NoTs == [form |-> "none"]

NoGen ==
    [fn |-> NoFn, tsImport |-> NoTs, tsExport |-> NoTs, wasmerImport |-> NoTs,
     wasmerExport |-> NoTs]

GenInit == gen \in { [NoGen EXCEPT !.fn = f] : f \in Signatures }

GenIdle == gen = NoGen

\* format_import_wrappers(&import_functions)
FormatImportWrappers ==
    /\ gen.tsImport.form = "none"
    /\ gen' = [gen EXCEPT !.tsImport = TsImportWrapper(gen.fn)]
    /\ UNCHANGED <<fp, run, load, rtvars>>

\* format_export_wrappers(&export_functions)
FormatExportWrappers ==
    /\ gen.tsExport.form = "none"
    /\ gen' = [gen EXCEPT !.tsExport = TsExportWrapper(gen.fn)]
    /\ UNCHANGED <<fp, run, load, rtvars>>

\* import_functions.iter().map(|function| format_export_function(function, types))
FormatExportFunction ==
    /\ gen.wasmerImport.form = "none"
    /\ gen' = [gen EXCEPT !.wasmerImport = WasmerImportCallback(gen.fn)]
    /\ UNCHANGED <<fp, run, load, rtvars>>

\* export_functions.iter().map(|function| format_import_function(function, types))
FormatImportFunction ==
    /\ gen.wasmerExport.form = "none"
    /\ gen' = [gen EXCEPT !.wasmerExport = WasmerExportMethod(gen.fn)]
    /\ UNCHANGED <<fp, run, load, rtvars>>

NextGen ==
    \/ FormatImportWrappers
    \/ FormatExportWrappers
    \/ FormatExportFunction
    \/ FormatImportFunction

(***************************************************************************)
(* One run of the generation entry point, and the TS type declarations.    *)
(***************************************************************************)

\* Variants of the enum in the type set handed to the run.
MaxVariants == 2

\* Target selectors a caller passes for the guest plugin, the native host
\* runtime and the TS host runtime.
Targets == {"rust-plugin", "rust-wasmer-runtime", "ts-runtime"}

\* variant.ty of an enum variant: Unit, a Struct, a Tuple of one item, a
\* Tuple of two items.
VariantKinds == {"Unit", "Struct", "Tuple1", "Tuple2"}

\* EnumOptions: untagged, tag_prop_name, content_prop_name.
EnumOptionsSet ==
    [ untagged : BOOLEAN, tag_prop_name : {"None", "type"},
      content_prop_name : {"None", "payload"} ]

Enums ==
    [ variants : UNION { [1 .. n -> VariantKinds] : n \in 1 .. MaxVariants },
      opts : EnumOptionsSet ]

\* impl FromStr for BindingsType
FromStr(bindings_type) ==
    CASE bindings_type = "rust-plugin" -> "RustPlugin"
      [] bindings_type = "ts-runtime" -> "TsRuntime"
      [] OTHER -> "Err"

\* The arms of create_enum_definition's match on variant.ty.
Supported(kind) == kind \in {"Unit", "Struct", "Tuple1"}

NoRendering ==
    [ name |-> FALSE, name_as_key |-> FALSE, tag |-> "None", content |-> "None",
      payload |-> "none", merged |-> FALSE ]

\* create_enum_definition, one variant: what the emitted union member
\* holds. name: the variant name appears; name_as_key: as the key of the
\* payload; tag, content: the property names used; payload: the struct's
\* fields or the tuple item's type; merged: the payload sits beside the tag.
RenderVariant(kind, opts) ==
    CASE kind = "Unit" ->
            IF opts.tag_prop_name # "None"
            THEN [NoRendering EXCEPT !.name = TRUE, !.tag = opts.tag_prop_name]
            ELSE [NoRendering EXCEPT !.name = TRUE]
      [] OTHER ->
            LET payload == IF kind = "Struct" THEN "fields" ELSE "type"
            IN  IF opts.untagged
                THEN [NoRendering EXCEPT !.payload = payload]
                ELSE IF opts.tag_prop_name # "None" /\ opts.content_prop_name # "None"
                THEN [NoRendering EXCEPT !.name = TRUE, !.tag = opts.tag_prop_name,
                                         !.content = opts.content_prop_name,
                                         !.payload = payload]
                ELSE IF opts.tag_prop_name # "None"
                THEN [NoRendering EXCEPT !.name = TRUE, !.tag = opts.tag_prop_name,
                                         !.payload = payload, !.merged = TRUE]
                ELSE [NoRendering EXCEPT !.name = TRUE, !.name_as_key = TRUE,
                                         !.payload = payload]

\* create_enum_definition: the members, or the panic on an unsupported one.
CreateEnumDefinition(enum) ==
    IF \A i \in DOMAIN enum.variants : Supported(enum.variants[i])
    THEN [ panic |-> FALSE,
           members |-> [i \in DOMAIN enum.variants |->
                          RenderVariant(enum.variants[i], enum.opts)] ]
    ELSE [ panic |-> TRUE, members |-> <<>> ]

NoEnum ==
    [ variants |-> <<>>,
      opts |-> [untagged |-> FALSE, tag_prop_name |-> "None", content_prop_name |-> "None"] ]

NoRun ==
    [ target |-> "none", enum |-> NoEnum, pc |-> "off", bindings_type |-> "none",
      dir |-> FALSE, files |-> {}, types |-> <<>>, err |-> "none" ]

RunInit ==
    run \in { [NoRun EXCEPT !.target = t, !.enum = e, !.pc = "start"] :
              t \in Targets, e \in Enums }

RunIdle == run = NoRun

\* BindingsType::from_str(bindings_type).expect("Unknown bindings type")
ParseBindingsType ==
    /\ run.pc = "start"
    /\ run' = IF FromStr(run.target) = "Err"
              THEN [run EXCEPT !.pc = "panicked", !.err = "Unknown bindings type"]
              ELSE [run EXCEPT !.pc = "parsed", !.bindings_type = FromStr(run.target)]
    /\ UNCHANGED <<fp, gen, load, rtvars>>

\* fs::create_dir_all(path)
CreateDirAll ==
    /\ run.pc = "parsed"
    /\ run' = [run EXCEPT !.pc = "dispatch", !.dir = TRUE]
    /\ UNCHANGED <<fp, gen, load, rtvars>>

\* generators::rust_plugin::generate_bindings: the guest plugin's type
\* declarations and function bindings.
RustPluginGenerate ==
    /\ run.pc = "dispatch"
    /\ run.bindings_type = "RustPlugin"
    /\ run' = [run EXCEPT !.pc = "done", !.files = {"types", "bindings"}]
    /\ UNCHANGED <<fp, gen, load, rtvars>>

\* The definitions are written although a variant is unsupported.
TsGenerateTypeBindingsLenient ==
    /\ run.pc = "dispatch"
    /\ run.bindings_type = "TsRuntime"
    /\ run' = [run EXCEPT !.pc = "ts_types", !.files = @ \cup {"types"},
                          !.types = [i \in DOMAIN run.enum.variants |->
                                        RenderVariant(run.enum.variants[i], run.enum.opts)]]
    /\ UNCHANGED <<fp, gen, load, rtvars>>

\* ts_runtime generate_type_bindings: every definition is built, then
\* types.ts is written.
TsGenerateTypeBindings ==
    /\ run.pc = "dispatch"
    /\ run.bindings_type = "TsRuntime"
    /\ LET defs == CreateEnumDefinition(run.enum)
       IN  run' = IF defs.panic
                  THEN [run EXCEPT !.pc = "panicked",
                                   !.err = "Unsupported type for enum variant"]
                  ELSE [run EXCEPT !.pc = "ts_types", !.files = @ \cup {"types"},
                                   !.types = defs.members]
    /\ UNCHANGED <<fp, gen, load, rtvars>>

\* ts_runtime generate_bindings after generate_type_bindings: index.ts.
TsWriteIndex ==
    /\ run.pc = "ts_types"
    /\ run' = [run EXCEPT !.pc = "done", !.files = @ \cup {"bindings"}]
    /\ UNCHANGED <<fp, gen, load, rtvars>>

NextRun ==
    \/ ParseBindingsType
    \/ CreateDirAll
    \/ RustPluginGenerate
    \/ TsGenerateTypeBindings
    \/ TsWriteIndex

(***************************************************************************)
(* A generated runtime loading a guest module and calling an export of it. *)
(***************************************************************************)

\* The symbols the TS runtime fetches with getExport, in the order it does.
RequiredExports ==
    <<"memory", "__fp_malloc", "__fp_free", "__fp_guest_resolve_async_value">>

\* The generated export of the one declared export function.
GenExport == "__fp_gen_f"

ModuleSymbols == { RequiredExports[i] : i \in DOMAIN RequiredExports } \cup {GenExport}

\* Guest modules: whether the bytes compile, whether the module instantiates
\* against the import object, and what it exports.
Modules == [ compiles : BOOLEAN, links : BOOLEAN, exports : SUBSET ModuleSymbols ]

\* The first of the required symbols the module lacks, 0 when it has all.
RECURSIVE FirstMissing(_, _)
FirstMissing(exports, i) ==
    IF i > Len(RequiredExports) THEN 0
    ELSE IF RequiredExports[i] \notin exports THEN i
    ELSE FirstMissing(exports, i + 1)

\* The property format_export_wrappers emits for the export: a trivial
\* function is `instance.exports.__fp_gen_f as any`; a wrapped one is the
\* value of an IIFE that returns early on `if (!export_fn) return;`.
ExportProperty(trivial, exports) ==
    IF trivial
    THEN (IF GenExport \in exports THEN "function" ELSE "undefined")
    ELSE (IF GenExport \notin exports THEN "undefined" ELSE "function")

NoLoad ==
    [ host |-> "off", module |-> [compiles |-> FALSE, links |-> FALSE, exports |-> {}],
      trivial |-> FALSE, pc |-> "off", outcome |-> "none", export |-> "none",
      called |-> FALSE ]

LoadInit ==
    load \in { [NoLoad EXCEPT !.host = h, !.module = m, !.trivial = t, !.pc = "start"] :
               h \in {"wasmer", "ts"}, m \in { x \in Modules : x.compiles \/ ~x.links },
               t \in BOOLEAN }

LoadIdle == load = NoLoad

\* Runtime::new of the generated wasmer runtime: Module::new(..)?, then
\* Instance::new(..).unwrap().
RuntimeNew ==
    /\ load.pc = "start"
    /\ load.host = "wasmer"
    /\ load' = IF ~load.module.compiles
               THEN [load EXCEPT !.pc = "failed", !.outcome = "Err(RuntimeError)"]
               ELSE IF ~load.module.links
               THEN [load EXCEPT !.pc = "failed", !.outcome = "panic"]
               ELSE [load EXCEPT !.pc = "ready", !.outcome = "Ok(Runtime)"]
    /\ UNCHANGED <<fp, gen, run, rtvars>>

\* Runtime::<name>_raw: get_typed_function(..).map_err(FunctionNotExported)?,
\* then function.call.
NativeCallExport ==
    /\ load.pc = "ready"
    /\ load.host = "wasmer"
    /\ load' = IF GenExport \in load.module.exports
               THEN [load EXCEPT !.pc = "called", !.outcome = "Ok(result)", !.called = TRUE]
               ELSE [load EXCEPT !.pc = "called",
                                 !.outcome = "Err(FunctionNotExported(__fp_gen_f))"]
    /\ UNCHANGED <<fp, gen, run, rtvars>>

\* createRuntime of the generated TS runtime: WebAssembly.instantiate, the
\* four getExport calls, then the object of export wrappers. A trivial
\* export is instance.exports.__fp_gen_f itself; a wrapped one is undefined
\* when export_fn is missing.
CreateRuntime ==
    /\ load.pc = "start"
    /\ load.host = "ts"
    /\ load' = IF ~load.module.compiles
               THEN [load EXCEPT !.pc = "failed", !.outcome = "CompileError"]
               ELSE IF ~load.module.links
               THEN [load EXCEPT !.pc = "failed", !.outcome = "LinkError"]
               ELSE IF FirstMissing(load.module.exports, 1) # 0
               THEN [load EXCEPT !.pc = "failed", !.outcome = "FPRuntimeError"]
               ELSE [load EXCEPT !.pc = "ready", !.outcome = "Exports",
                                 !.export = ExportProperty(load.trivial,
                                                           load.module.exports)]
    /\ UNCHANGED <<fp, gen, run, rtvars>>

\* The embedder invokes the declared export on the Exports object.
TsCallExport ==
    /\ load.pc = "ready"
    /\ load.host = "ts"
    /\ load' = IF load.export = "function"
               THEN [load EXCEPT !.pc = "called", !.outcome = "result", !.called = TRUE]
               ELSE [load EXCEPT !.pc = "called", !.outcome = "TypeError"]
    /\ UNCHANGED <<fp, gen, run, rtvars>>

NextLoad ==
    \/ RuntimeNew
    \/ NativeCallExport
    \/ CreateRuntime
    \/ TsCallExport

(***************************************************************************)
(* The generated host runtimes: guest memory, the async-value record, the  *)
(* TS runtime's helpers, wrappers and callbacks, and the wasmer runtime's  *)
(* async import callback.                                                  *)
(***************************************************************************)

\* Calls across the boundary in one run: export calls by the embedder plus
\* async import calls by the guest.
MaxCalls == 2

\* Decodes of one buffer by the host that are followed.
MaxUses == 2

\* Allocations in the guest's linear memory. The guest's allocator is taken
\* to hand every call three addresses of its own, never reused: one for an
\* argument buffer, one for the async-value record, one for the result buffer.
MaxPtr == 3 * MaxCalls

ArgPtr(k) == 3 * k - 2

RecPtr(k) == 3 * k - 1

ResPtr(k) == 3 * k

\* The result buffer's address for the call whose record is at p.
ResPtrOf(p) == p + 1

Ptr == 1 .. MaxPtr

\* const len = 12; // std::mem::size_of::<AsyncValue>()
AsyncValueLen == 12

\* A small JS number, and back.
Num(n) == Canon(<<n % 65536, n \div 65536>>)

NumToInt(n) == LimbAt(n, 1) + 65536 * LimbAt(n, 2)

\* toFatPtr and fromFatPtr on the pointers and lengths this memory has,
\* evaluated once.
PackTable ==
    [p \in 0 .. MaxPtr, l \in 0 .. AsyncValueLen |-> toFatPtr(Num(p), Num(l))]

UnpackTable ==
    [f \in { PackTable[x] : x \in DOMAIN PackTable } |->
        <<NumToInt(fromFatPtr(f)[1]), NumToInt(fromFatPtr(f)[2])>>]

\* toFatPtr(ptr, len)
Packed(p, l) == PackTable[p, l]

\* const [ptr, len] = fromFatPtr(fatPtr)
PtrOf(f) == UnpackTable[f][1]

LenOf(f) == UnpackTable[f][2]

\* Logical values crossing the boundary, by the kind of the declared type.
ValuesOf(kind) ==
    CASE kind = "unit" -> {"undefined"}
      [] kind = "prim" -> {"one"}
      [] OTHER -> {"a"}

Kinds == {"unit", "prim", "nonprim"}

Values == UNION { ValuesOf(k) : k \in Kinds }

\* Results of the guest's exports: a primitive one and a serialized one.
ExportValues == ValuesOf("prim") \cup ValuesOf("nonprim")

\* encode() of @msgpack/msgpack: nil, positive fixint 1, fixstr "a".
Encode(v) ==
    CASE v = "undefined" -> <<192>>
      [] v = "one" -> <<1>>
      [] OTHER -> <<161, 97>>

\* decode() of @msgpack/msgpack.
Decode(bytes) ==
    IF \E v \in Values : Encode(v) = bytes
    THEN CHOOSE v \in Values : Encode(v) = bytes
    ELSE "garbage"

NoAlloc == [st |-> "unused", w |-> <<>>, frees |-> 0, decodes |-> 0, stale |-> FALSE]

\* The __fp_malloc export: a FatPtr to a live allocation holding `content`.
Allocated(m, p, content) == [m EXCEPT ![p] = [NoAlloc EXCEPT !.st = "live", !.w = content]]

NoImport ==
    [st |-> "none", kind |-> "unit", h |-> <<>>, host |-> "pending", val |-> "undefined",
     cb |-> "waiting", detached |-> FALSE, res |-> <<>>, fut |-> <<>>]

NoLast ==
    [h |-> <<>>, outcome |-> "none", known |-> FALSE, wasFulfilled |-> FALSE, status |-> 0,
     readResult |-> FALSE, fulfilled |-> FALSE, freed |-> FALSE, inCall |-> FALSE,
     ready |-> FALSE]

RtInit ==
    /\ host \in {"ts", "wasmer"}
    /\ mem = [p \in Ptr |-> NoAlloc]
    /\ promises = <<>>
    /\ call = [pc |-> "idle", h |-> <<>>, n |-> 0]
    /\ imp = [p \in Ptr |-> NoImport]
    /\ last = NoLast

RtIdle ==
    /\ host = "off"
    /\ mem = [p \in Ptr |-> NoAlloc]
    /\ promises = <<>>
    /\ call = [pc |-> "idle", h |-> <<>>, n |-> 0]
    /\ imp = [p \in Ptr |-> NoImport]
    /\ last = NoLast

\* A then-callback or a wasmer callback is between two of its statements.
MidCallback == \E p \in Ptr : imp[p].cb \in {"joined", "serialized", "w1", "w2", "assigned"}

\* An import callback has been entered and has not returned yet.
InImport == \E p \in Ptr : imp[p].st = "called"

\* The JS stack is empty: microtasks (then/catch callbacks) may run.
StackEmpty == call.pc = "idle" /\ ~InImport /\ ~MidCallback

\* Guest code is at a point where it can call a host import.
GuestRuns == ~InImport /\ ~MidCallback

NumImports == Cardinality({ p \in Ptr : imp[p].st # "none" })

\* Another call fits the run, and its number.
MoreCalls == NumImports + call.n < MaxCalls

NextCall == NumImports + call.n + 1

(***************************************************************************)
(* TS runtime helpers (index.ts).                                          *)
(***************************************************************************)

\* parseObject(fatPtr): decode the buffer, then hand it to the free export.
\* `ok` is whether decoding a buffer that was already freed still succeeds.
ParseObjectMem(m, fatPtr, ok) ==
    LET p == PtrOf(fatPtr)
        wasLive == m[p].st = "live"
        read == [m EXCEPT ![p].decodes = @ + 1, ![p].stale = @ \/ ~wasLive]
    IN  IF wasLive \/ ok
        THEN [read EXCEPT ![p].st = "freed", ![p].frees = @ + 1]
        ELSE read

ParseObjectValue(m, fatPtr) ==
    LET p == PtrOf(fatPtr)
        len == LenOf(fatPtr)
    IN  Decode(SubSeq(m[p].w, 1, len))

\* serializeObject(object): malloc(serialized.length), buffer.set(serialized).
SerializeObjectMem(m, p, v) == Allocated(m, p, Encode(v))

SerializeObjectPtr(p, v) == Packed(p, Len(Encode(v)))

\* createAsyncValue(): malloc(12), buffer.fill(0).
CreateAsyncValueMem(m, p) == Allocated(m, p, <<0, 0, 0>>)

CreateAsyncValuePtr(p) == Packed(p, AsyncValueLen)

\* promises.set(ptr, resolve) on a new Promise.
PromisesSet(h) ==
    [k \in (DOMAIN promises) \cup {h} |->
        IF k = h THEN [calls |-> 0, val |-> "undefined"] ELSE promises[k]]

\* Which branch of resolvePromise runs, from promises.get(ptr) and buffer[0].
ResolveBranchNoStatusCheck(known, status) ==
    IF ~known THEN "unknown" ELSE IF status \in {0, 1} THEN "resolve" ELSE "unexpected"

ResolveBranch(known, status) ==
    IF ~known THEN "unknown"
    ELSE CASE status = 0 -> "notReady"
           [] status = 1 -> "resolve"
           [] OTHER -> "unexpected"

(***************************************************************************)
(* TS runtime: export wrappers and the guest's side of an export call.     *)
(***************************************************************************)

\* export_fn(...) of an async export: the guest creates the async-value
\* record and returns its FatPtr.
ExportFnAsync ==
    /\ host = "ts"
    /\ StackEmpty
    /\ MoreCalls
    /\ LET p == RecPtr(NextCall)
       IN  /\ mem' = CreateAsyncValueMem(mem, p)
           /\ call' = [pc |-> "inExport", h |-> CreateAsyncValuePtr(p), n |-> call.n + 1]
    /\ last' = NoLast
    /\ UNCHANGED <<fp, gen, run, load, host, promises, imp>>

\* return promiseFromPtr<T>(export_fn(...)): the returned handle is registered.
PromiseFromPtr ==
    /\ host = "ts"
    /\ call.pc = "inExport"
    /\ GuestRuns
    /\ promises' = PromisesSet(call.h)
    /\ call' = [call EXCEPT !.pc = "idle", !.h = <<>>]
    /\ last' = NoLast
    /\ UNCHANGED <<fp, gen, run, load, host, mem, imp>>

\* The records of async export calls: created by the guest, not by a host
\* import callback.
ExportRecords ==
    { p \in Ptr : mem[p].st = "live" /\ Len(mem[p].w) = 3 /\ imp[p].st = "none" }

\* The guest completes an async export: result buffer, result_ptr,
\* result_len, then status = 1.
GuestCompletes(p, v) ==
    /\ host = "ts"
    /\ GuestRuns
    /\ p \in ExportRecords
    /\ mem[p].w[1] = 0
    /\ LET r == ResPtrOf(p)
       IN  mem' = [Allocated(mem, r, Encode(v)) EXCEPT ![p].w = <<1, r, Len(Encode(v))>>]
    /\ last' = NoLast
    /\ UNCHANGED <<fp, gen, run, load, host, promises, call, imp>>

\* return parseObject<T>(export_fn(arg_ptr)) of a synchronous export with a
\* serialized argument: the guest consumes the argument buffer and returns a
\* result buffer, which the host decodes and frees.
SyncExportCall(v) ==
    /\ host = "ts"
    /\ StackEmpty
    /\ MoreCalls
    /\ LET a == ArgPtr(NextCall)
           r == ResPtr(NextCall)
           sent == SerializeObjectMem(mem, a, "a")
           got == Allocated([sent EXCEPT ![a].st = "freed"], r, Encode(v))
       IN  mem' = ParseObjectMem(got, SerializeObjectPtr(r, v), FALSE)
    /\ call' = [call EXCEPT !.n = @ + 1]
    /\ last' = NoLast
    /\ UNCHANGED <<fp, gen, run, load, host, promises, imp>>

\* Handles the guest may pass to __fp_host_resolve_async_value: those of its
\* async export calls, and one no export call returned.
ResolveInputs ==
    { CreateAsyncValuePtr(p) : p \in ExportRecords } \cup {Packed(0, AsyncValueLen)}

\* resolvePromise(ptr), installed as __fp_host_resolve_async_value. Decoding
\* fails on bytes that are no allocation's, and may fail or not on a buffer
\* that was freed.
ResolvePromise(h) ==
    /\ host = "ts"
    /\ GuestRuns
    /\ h \in ResolveInputs
    /\ LET known == h \in DOMAIN promises
           asyncPtr == PtrOf(h)
           status == IF known THEN mem[asyncPtr].w[1] ELSE 0
           branch == ResolveBranch(known, status)
           result == Packed(mem[asyncPtr].w[2], mem[asyncPtr].w[3])
           rp == PtrOf(result)
           mapped == rp \in Ptr /\ mem[rp].st # "unused"
           inCall == call.pc = "inExport" /\ h = call.h
           seen == [NoLast EXCEPT !.h = h, !.known = known, !.status = status,
                                  !.wasFulfilled = known /\ promises[h].calls > 0,
                                  !.inCall = inCall,
                                  !.ready = asyncPtr \in Ptr /\ mem[asyncPtr].w[1] = 1]
           \* An FPRuntimeError thrown while export_fn is running unwinds the
           \* export call: promiseFromPtr is never reached.
           thrown == [call EXCEPT !.pc = "idle", !.h = <<>>]
       IN  IF branch # "resolve"
           THEN /\ last' = [seen EXCEPT !.outcome = branch]
                /\ call' = thrown
                /\ UNCHANGED <<mem, promises>>
           ELSE IF ~mapped
           THEN /\ last' = [seen EXCEPT !.outcome = "decodeError", !.readResult = TRUE]
                /\ call' = thrown
                /\ UNCHANGED <<mem, promises>>
           ELSE /\ mem[rp].decodes < MaxUses
                /\ \E ok \in (IF mem[rp].st = "live" THEN {TRUE} ELSE BOOLEAN) :
                      /\ mem' = ParseObjectMem(mem, result, ok)
                      /\ promises' =
                            IF ok
                            THEN [promises EXCEPT ![h] =
                                    [calls |-> IF @.calls < MaxUses THEN @.calls + 1
                                               ELSE @.calls,
                                     val |-> IF @.calls = 0
                                             THEN ParseObjectValue(mem, result) ELSE @.val]]
                            ELSE promises
                      /\ last' = IF ok
                                 THEN [seen EXCEPT !.outcome = "resolved", !.readResult = TRUE,
                                                   !.fulfilled = TRUE, !.freed = TRUE]
                                 ELSE [seen EXCEPT !.outcome = "decodeError",
                                                   !.readResult = TRUE]
                      /\ call' = IF ok THEN call ELSE thrown
    /\ UNCHANGED <<fp, gen, run, load, host, imp>>

(***************************************************************************)
(* TS runtime: the async import callback __fp_gen_<name>.                  *)
(***************************************************************************)

\* The callback up to its return statement: parseObject of its non-primitive
\* argument, createAsyncValue(), importFunctions.<name>(...).then().catch().
ImportBegin(kind) ==
    /\ host = "ts"
    /\ GuestRuns
    /\ MoreCalls
    /\ LET a == ArgPtr(NextCall)
           m1 == ParseObjectMem(Allocated(mem, a, Encode("a")),
                                SerializeObjectPtr(a, "a"), FALSE)
           p == RecPtr(NextCall)
       IN  /\ mem' = CreateAsyncValueMem(m1, p)
           /\ imp' = [imp EXCEPT ![p] = [NoImport EXCEPT !.st = "called", !.kind = kind,
                                                         !.h = CreateAsyncValuePtr(p)]]
    /\ last' = NoLast
    /\ UNCHANGED <<fp, gen, run, load, host, promises, call>>

\* return _async_result_ptr;
ImportReturn(p) ==
    /\ host = "ts"
    /\ imp[p].st = "called"
    /\ imp' = [imp EXCEPT ![p].st = "returned"]
    /\ last' = NoLast
    /\ UNCHANGED <<fp, gen, run, load, host, mem, promises, call>>

\* The promise the embedder's import function returned settles.
HostSettles(p, outcome, v) ==
    /\ host = "ts"
    /\ imp[p].st \in {"called", "returned"}
    /\ imp[p].host = "pending"
    /\ v \in ValuesOf(imp[p].kind)
    /\ imp' = [imp EXCEPT ![p].host = outcome,
                          ![p].val = IF outcome = "fulfilled" THEN v ELSE @]
    /\ last' = NoLast
    /\ UNCHANGED <<fp, gen, run, load, host, mem, promises, call>>

\* assignAsyncValue, first statements: the record's view is taken, then
\* serializeObject(result) calls malloc. When that allocation grows the
\* guest's memory, memory.buffer is replaced and the view taken before is
\* detached.
ThenSerialize(p, grows) ==
    /\ host = "ts"
    /\ StackEmpty
    /\ imp[p].host = "fulfilled"
    /\ imp[p].cb = "waiting"
    /\ imp[p].kind # "unit"
    /\ LET r == ResPtrOf(p)
       IN  /\ mem' = SerializeObjectMem(mem, r, imp[p].val)
           /\ imp' = [imp EXCEPT ![p].cb = "serialized", ![p].detached = grows,
                                 ![p].res = SerializeObjectPtr(r, imp[p].val)]
    /\ last' = NoLast
    /\ UNCHANGED <<fp, gen, run, load, host, promises, call>>

\* The record of the callback's handle, as assignAsyncValue addresses it.
RecordOf(p) == PtrOf(imp[p].h)

\* buffer[i] = x through the view assignAsyncValue took: a store through a
\* detached view changes nothing.
ViewStore(m, p, i, x) == IF imp[p].detached THEN m ELSE [m EXCEPT ![RecordOf(p)].w[i] = x]

\* buffer[1] = resultPtr;
ThenWritePtrAndReady(p) ==
    /\ host = "ts"
    /\ imp[p].cb = "serialized"
    /\ mem' = ViewStore(ViewStore(mem, p, 2, PtrOf(imp[p].res)), p, 1, 1)
    /\ imp' = [imp EXCEPT ![p].cb = "w1"]
    /\ last' = NoLast
    /\ UNCHANGED <<fp, gen, run, load, host, promises, call>>

ThenWritePtr(p) ==
    /\ host = "ts"
    /\ imp[p].cb = "serialized"
    /\ mem' = ViewStore(mem, p, 2, PtrOf(imp[p].res))
    /\ imp' = [imp EXCEPT ![p].cb = "w1"]
    /\ last' = NoLast
    /\ UNCHANGED <<fp, gen, run, load, host, promises, call>>

\* buffer[2] = resultLen;
ThenWriteLen(p) ==
    /\ host = "ts"
    /\ imp[p].cb = "w1"
    /\ mem' = ViewStore(mem, p, 3, LenOf(imp[p].res))
    /\ imp' = [imp EXCEPT ![p].cb = "w2"]
    /\ last' = NoLast
    /\ UNCHANGED <<fp, gen, run, load, host, promises, call>>

\* buffer[0] = 1; // Set status to ready.
ThenSetReady(p) ==
    /\ host = "ts"
    /\ imp[p].cb = "w2"
    /\ mem' = ViewStore(mem, p, 1, 1)
    /\ imp' = [imp EXCEPT ![p].cb = "assigned"]
    /\ last' = NoLast
    /\ UNCHANGED <<fp, gen, run, load, host, promises, call>>

\* One call of the guest's resolution symbol, as the guest sees it: the
\* record's status at the call and whether the handle had been returned.
Resolution(p) == [status |-> mem[RecordOf(p)].w[1], returned |-> imp[p].st = "returned"]

\* resolveFuture(_async_result_ptr); directly so for a unit return type.
ThenResolveFuture(p) ==
    /\ host = "ts"
    /\ \/ imp[p].cb = "assigned"
       \/ StackEmpty /\ imp[p].host = "fulfilled" /\ imp[p].cb = "waiting"
                     /\ imp[p].kind = "unit"
    /\ imp' = [imp EXCEPT ![p].cb = "done", ![p].fut = Append(@, Resolution(p))]
    /\ last' = NoLast
    /\ UNCHANGED <<fp, gen, run, load, host, mem, promises, call>>

\* .catch((error) => console.error(...))
CatchCallback(p) ==
    /\ host = "ts"
    /\ StackEmpty
    /\ imp[p].host = "rejected"
    /\ imp[p].cb = "waiting"
    /\ imp' = [imp EXCEPT ![p].cb = "logged"]
    /\ last' = NoLast
    /\ UNCHANGED <<fp, gen, run, load, host, mem, promises, call>>

(***************************************************************************)
(* wasmer runtime: the async import callback _<name>.                      *)
(***************************************************************************)

\* let result = super::<name>(...); let async_ptr = create_future_value(&mut env);
NativeBegin(kind) ==
    /\ host = "wasmer"
    /\ ~InImport
    /\ MoreCalls
    /\ LET p == RecPtr(NextCall)
       IN  /\ mem' = CreateAsyncValueMem(mem, p)
           /\ imp' = [imp EXCEPT ![p] = [NoImport EXCEPT !.st = "called", !.kind = kind,
                                                         !.h = CreateAsyncValuePtr(p)]]
    /\ last' = NoLast
    /\ UNCHANGED <<fp, gen, run, load, host, promises, call>>

\* The spawned thread's block_on(result.await) finishes.
NativeBodyCompletes(p, v) ==
    /\ host = "wasmer"
    /\ imp[p].st = "called"
    /\ imp[p].host = "pending"
    /\ v \in ValuesOf(imp[p].kind)
    /\ imp' = [imp EXCEPT ![p].host = "fulfilled", ![p].val = v]
    /\ last' = NoLast
    /\ UNCHANGED <<fp, gen, run, load, host, mem, promises, call>>

\* std::thread::spawn(...).join().unwrap(): the callback waits for the body.
NativeJoin(p) ==
    /\ host = "wasmer"
    /\ imp[p].st = "called"
    /\ imp[p].cb = "waiting"
    /\ imp[p].host = "fulfilled"
    /\ imp' = [imp EXCEPT ![p].cb = "joined"]
    /\ last' = NoLast
    /\ UNCHANGED <<fp, gen, run, load, host, mem, promises, call>>

\* let result_ptr = export_to_guest_raw(&mut env, &result);
NativeExport(p) ==
    /\ host = "wasmer"
    /\ imp[p].cb = "joined"
    /\ LET r == ResPtrOf(p)
       IN  /\ mem' = SerializeObjectMem(mem, r, imp[p].val)
           /\ imp' = [imp EXCEPT ![p].cb = "serialized",
                                 ![p].res = SerializeObjectPtr(r, imp[p].val)]
    /\ last' = NoLast
    /\ UNCHANGED <<fp, gen, run, load, host, promises, call>>

\* guest_resolve_async_value(store, async_ptr, result_ptr): the record gets
\* the result and status 1, and the guest's resolution symbol is called.
NativeResolve(p) ==
    /\ host = "wasmer"
    /\ imp[p].cb = "serialized"
    /\ LET ready == [mem EXCEPT ![RecordOf(p)].w =
                        <<1, PtrOf(imp[p].res),
                             LenOf(imp[p].res)>>]
       IN  /\ mem' = ready
           /\ imp' = [imp EXCEPT ![p].cb = "done",
                                 ![p].fut = Append(@, [status |-> ready[RecordOf(p)].w[1],
                                                       returned |-> imp[p].st = "returned"])]
    /\ last' = NoLast
    /\ UNCHANGED <<fp, gen, run, load, host, promises, call>>

\* async_ptr (the callback's value)
NativeReturn(p) ==
    /\ host = "wasmer"
    /\ imp[p].st = "called"
    /\ imp[p].cb = "done"
    /\ imp' = [imp EXCEPT ![p].st = "returned"]
    /\ last' = NoLast
    /\ UNCHANGED <<fp, gen, run, load, host, mem, promises, call>>

Next ==
    \/ ExportFnAsync
    \/ PromiseFromPtr
    \/ \E p \in Ptr, v \in ExportValues : GuestCompletes(p, v)
    \/ \E v \in ValuesOf("nonprim") : SyncExportCall(v)
    \/ \E p \in 0 .. MaxPtr : ResolvePromise(CreateAsyncValuePtr(p))
    \/ \E kind \in Kinds : ImportBegin(kind)
    \/ \E p \in Ptr : ImportReturn(p)
    \/ \E p \in Ptr, v \in Values : HostSettles(p, "fulfilled", v)
    \/ \E p \in Ptr : HostSettles(p, "rejected", imp[p].val)
    \/ \E p \in Ptr, grows \in BOOLEAN : ThenSerialize(p, grows)
    \/ \E p \in Ptr : ThenWritePtr(p)
    \/ \E p \in Ptr : ThenWriteLen(p)
    \/ \E p \in Ptr : ThenSetReady(p)
    \/ \E p \in Ptr : ThenResolveFuture(p)
    \/ \E p \in Ptr : CatchCallback(p)
    \/ \E kind \in Kinds : NativeBegin(kind)
    \/ \E p \in Ptr, v \in Values : NativeBodyCompletes(p, v)
    \/ \E p \in Ptr : NativeJoin(p)
    \/ \E p \in Ptr : NativeExport(p)
    \/ \E p \in Ptr : NativeResolve(p)
    \/ \E p \in Ptr : NativeReturn(p)

Init == RtInit /\ FpIdle /\ GenIdle /\ RunIdle /\ LoadIdle

Spec == Init /\ [][Next]_vars

\* The callbacks' own statements run to completion once they can run; when
\* the embedder's function settles, and what the guest does, is not the
\* runtime's to decide.
Fairness ==
    /\ \A p \in Ptr : WF_vars(ImportReturn(p))
    /\ \A p \in Ptr : WF_vars(\E grows \in BOOLEAN : ThenSerialize(p, grows))
    /\ \A p \in Ptr : WF_vars(ThenWritePtr(p))
    /\ \A p \in Ptr : WF_vars(ThenWriteLen(p))
    /\ \A p \in Ptr : WF_vars(ThenSetReady(p))
    /\ \A p \in Ptr : WF_vars(ThenResolveFuture(p))
    /\ \A p \in Ptr : WF_vars(CatchCallback(p))
    /\ \A p \in Ptr : WF_vars(NativeJoin(p))
    /\ \A p \in Ptr : WF_vars(NativeExport(p))
    /\ \A p \in Ptr : WF_vars(NativeResolve(p))
    /\ \A p \in Ptr : WF_vars(NativeReturn(p))
    /\ WF_vars(PromiseFromPtr)

FairSpec == Spec /\ Fairness

InitFatPtr == FpInit /\ RtIdle /\ GenIdle /\ RunIdle /\ LoadIdle

SpecFatPtr == InitFatPtr /\ [][NextFatPtr]_vars

InitGen == GenInit /\ FpIdle /\ RtIdle /\ RunIdle /\ LoadIdle

SpecGen == InitGen /\ [][NextGen]_vars

InitRun == RunInit /\ FpIdle /\ GenIdle /\ LoadIdle /\ RtIdle

SpecRun == InitRun /\ [][NextRun]_vars

InitLoad == LoadInit /\ FpIdle /\ GenIdle /\ RunIdle /\ RtIdle

SpecLoad == InitLoad /\ [][NextLoad]_vars
\* C1: for every 32-bit unsigned ptr and len, fromFatPtr(toFatPtr(ptr, len))
\* is exactly (ptr, len); the packed value fits 64 bits, holds ptr in its high
\* 32 bits and len in its low 32 bits.
C1_FatPtrRoundTrip ==
    /\ fp.pc \in {"packed", "unpacked"} =>
          LET w == [i \in 1 .. 4 |-> LimbAt(fp.fat, i)]
          IN  /\ Len(fp.fat) <= 4
              /\ Canon(SubSeq(w, 3, 4)) = fp.ptr
              /\ Canon(SubSeq(w, 1, 2)) = fp.len
    /\ fp.pc = "unpacked" => fp.out = <<fp.ptr, fp.len>>

\* C1 witness: a pair with the top bit of ptr and of len set has been packed
\* and unpacked.
C1_Witness ==
    /\ fp.pc = "unpacked"
    /\ fp.ptr = <<65535, 32768>>
    /\ fp.len = <<1, 65535>>


(***************************************************************************)
(* Claims about the runtimes.                                              *)
(***************************************************************************)

\* C2: once resolvePromise(h) has fulfilled the promise registered for h, a
\* further resolvePromise(h) raises an error, fulfils nothing and reads and
\* frees no buffer.
C2_SecondResolveRejected ==
    last.wasFulfilled =>
        /\ last.outcome \in {"unknown", "notReady", "unexpected"}
        /\ ~last.fulfilled
        /\ ~last.readResult
        /\ ~last.freed

\* C3: resolvePromise(h) for a handle that is not registered, or whose status
\* is still 0, raises FPRuntimeError: no promise is fulfilled, the result
\* fields are not read as a FatPtr and no buffer is freed.
C3_UnknownOrPendingRejected ==
    (last.outcome # "none" /\ (~last.known \/ last.status = 0)) =>
        /\ last.outcome = (IF last.known THEN "notReady" ELSE "unknown")
        /\ ~last.fulfilled
        /\ ~last.readResult
        /\ ~last.freed

\* C3 witness: a registered handle was resolved while still pending.
C3_Witness == last.outcome = "notReady" /\ last.known /\ last.status = 0

\* C4: in both hosts the async import callback returns the handle without
\* first running its completion, and the guest's resolution symbol is called
\* for a handle only after the callback has returned it.
C4_HandleReturnedFirst ==
    \A p \in Ptr :
        /\ imp[p].st = "called" => imp[p].cb = "waiting"
        /\ \A i \in 1 .. Len(imp[p].fut) : imp[p].fut[i].returned

\* C5: in the TS host, whatever the declared return type, resolveFuture is
\* called on a handle only when its status is already 1, and at most once.
C5_ResolvedOnlyWhenReady ==
    host = "ts" =>
        \A p \in Ptr :
            /\ Len(imp[p].fut) <= 1
            /\ \A i \in 1 .. Len(imp[p].fut) : imp[p].fut[i].status = 1

\* C6: a record the TS host creates starts as status 0 with zero fields, and
\* whenever its status is 1 its result_ptr and result_len are those of a live
\* buffer holding the whole serialized result.
C6_ReadyImpliesResultWritten ==
    host = "ts" =>
        \A p \in Ptr :
            imp[p].st # "none" =>
                LET w == mem[p].w
                IN  /\ w[1] \in {0, 1}
                    /\ imp[p].cb = "waiting" => w = <<0, 0, 0>>
                    /\ w[1] = 1 =>
                          /\ imp[p].host = "fulfilled"
                          /\ w[2] \in Ptr
                          /\ mem[w[2]].st = "live"
                          /\ mem[w[2]].w = Encode(imp[p].val)
                          /\ w[3] = Len(Encode(imp[p].val))

\* C6 witness: a record of the TS host has become ready.
C6_Witness == host = "ts" /\ \E p \in Ptr : imp[p].st # "none" /\ mem[p].w[1] = 1

\* C7: whenever the host function of an issued async import call
\* settles, by fulfilling or by rejecting, the guest's resolution symbol is
\* eventually called for its handle.
C7_SettledLeadsToResolution ==
    \A p \in Ptr :
        (imp[p].host \in {"fulfilled", "rejected"}) ~> (Len(imp[p].fut) > 0)

\* C8: in the TS host every buffer the host decodes is freed exactly once,
\* after the decode: none is freed twice, none is read after it was freed.
C8_DecodedBuffersFreedOnce ==
    host = "ts" =>
        \A p \in Ptr :
            /\ mem[p].frees <= 1
            /\ ~mem[p].stale
            /\ mem[p].decodes = mem[p].frees

(***************************************************************************)
(* Claims about the generators.                                            *)
(***************************************************************************)

\* C9: the callable the TS runtime hands to the embedder for an export gives
\* the guest's raw return value only for a primitive or unit return type; for
\* a non-primitive one it gives parseObject of the returned FatPtr, and for an
\* async function a promise, whatever the kinds of the arguments.
C9_ExportReturnsDecoded ==
    gen.tsExport.form # "none" =>
        LET f == gen.fn
            conv == gen.tsExport.ret_conv
        IN  /\ f.is_async => conv = "promiseFromPtr"
            /\ (~f.is_async /\ f.ret # "Unit" /\ ~IsPrimitive(f.ret)) => conv = "parseObject"
            /\ conv \in {"raw", "none"} =>
                  (~f.is_async /\ (f.ret = "Unit" \/ IsPrimitive(f.ret)))

\* C10: both host generators treat every argument and every synchronous
\* return value alike: a primitive crosses by value in its boundary
\* representation and is never serialized, a non-primitive crosses as a FatPtr
\* to a serialized buffer which the receiving side deserializes.
C10_BoundaryRule ==
    LET f == gen.fn
        prim(i) == IsPrimitive(f.args[i])
        primRet == IsPrimitive(f.ret)
        syncRet == ~f.is_async /\ f.ret # "Unit"
    IN  /\ gen.tsImport.form # "none" =>
              /\ \A i \in DOMAIN f.args :
                    IF prim(i)
                    THEN /\ gen.tsImport.params[i] = format_primitive(f.args[i])
                         /\ gen.tsImport.arg_conv[i] = "value"
                    ELSE /\ gen.tsImport.params[i] = "FatPtr"
                         /\ gen.tsImport.arg_conv[i] = "parseObject"
              /\ syncRet =>
                    IF primRet
                    THEN /\ gen.tsImport.ret = format_primitive(f.ret)
                         /\ gen.tsImport.ret_conv = "value"
                    ELSE /\ gen.tsImport.ret = "FatPtr"
                         /\ gen.tsImport.ret_conv = "serializeObject"
        /\ gen.tsExport.form # "none" =>
              /\ \A i \in DOMAIN f.args :
                    gen.tsExport.arg_conv[i] = IF prim(i) THEN "value" ELSE "serializeObject"
              /\ syncRet =>
                    gen.tsExport.ret_conv = IF primRet THEN "raw" ELSE "parseObject"
        /\ gen.wasmerImport.form # "none" =>
              /\ \A i \in DOMAIN f.args :
                    IF prim(i)
                    THEN /\ gen.wasmerImport.params[i] = <<"AbiType", f.args[i]>>
                         /\ gen.wasmerImport.arg_conv[i] = "from_abi"
                    ELSE /\ gen.wasmerImport.params[i] = <<"FatPtr">>
                         /\ gen.wasmerImport.arg_conv[i] = "import_from_guest"
              /\ syncRet =>
                    IF primRet
                    THEN /\ gen.wasmerImport.ret = <<"AbiType", f.ret>>
                         /\ gen.wasmerImport.ret_conv = "to_abi"
                    ELSE /\ gen.wasmerImport.ret = <<"FatPtr">>
                         /\ gen.wasmerImport.ret_conv = "export_to_guest"
        /\ gen.wasmerExport.form # "none" =>
              /\ \A i \in DOMAIN f.args :
                    IF prim(i)
                    THEN /\ gen.wasmerExport.params[i] = <<"AbiType", f.args[i]>>
                         /\ gen.wasmerExport.arg_conv[i] = "to_abi"
                    ELSE /\ gen.wasmerExport.params[i] = <<"FatPtr">>
                         /\ gen.wasmerExport.arg_conv[i] = "serialize_to_vec, export_to_guest_raw"
              /\ syncRet =>
                    IF primRet
                    THEN /\ gen.wasmerExport.ret = <<"AbiType", f.ret>>
                         /\ gen.wasmerExport.ret_conv = "from_abi"
                    ELSE /\ gen.wasmerExport.ret = <<"FatPtr">>
                         /\ gen.wasmerExport.ret_conv =
                                "import_from_guest_raw, deserialize_from_slice"

\* C11: for every async import function, whatever its declared return type,
\* the wrapper each host generator emits declares FatPtr as its boundary
\* return type and returns the async-result handle.
C11_AsyncWrapperReturnsFatPtr ==
    gen.fn.is_async =>
        /\ gen.wasmerImport.form # "none" =>
              /\ gen.wasmerImport.ret = <<"FatPtr">>
              /\ gen.wasmerImport.returns = "async_ptr"
        /\ gen.tsImport.form # "none" =>
              /\ gen.tsImport.ret \in TsFatPtrTypes
              /\ gen.tsImport.returns = "_async_result_ptr"

\* C18: when the guest calls __fp_host_resolve_async_value for the handle of
\* an async export while that export call is still running, no unknown
\* promise error is raised and, the record being ready, the caller's promise
\* is fulfilled.
C18_ResolveDuringExportCall ==
    last.inCall =>
        /\ last.outcome # "unknown"
        /\ last.ready => last.fulfilled

\* C19: the result of an async call always crosses as a serialized buffer,
\* whatever its declared type, in both generators and both directions: the
\* host side of an async import serializes the result before it resolves,
\* the host side of an async export takes a FatPtr handle from the guest and
\* deserializes the resolved buffer.
C19_AsyncResultSerialized ==
    gen.fn.is_async =>
        /\ gen.tsImport.form # "none" =>
              gen.tsImport.ret_conv = "assignAsyncValue, resolveFuture"
        /\ gen.wasmerImport.form # "none" =>
              gen.wasmerImport.ret_conv = "guest_resolve_async_value"
        /\ gen.tsExport.form # "none" =>
              gen.tsExport.ret_conv = "promiseFromPtr"
        /\ gen.wasmerExport.form # "none" =>
              /\ gen.wasmerExport.ret_conv = "ModuleRawFuture, deserialize_from_slice"
              /\ gen.wasmerExport.ret = <<"FatPtr">>

(***************************************************************************)
(* Claims about the generation run and the loading of a guest module.      *)
(***************************************************************************)

\* C12: the entry point accepts each of the three targets and dispatches it
\* to its generator, which leaves a type-declarations artifact and a
\* function-bindings artifact; no supported target is rejected as unknown.
C12_EveryTargetGenerates ==
    /\ run.err # "Unknown bindings type"
    /\ run.pc = "done" => run.files = {"types", "bindings"}

\* C13: in the TS generator, when an enum has a variant whose payload is
\* neither Unit, a Struct nor a one-item Tuple, the run aborts and writes
\* neither types.ts nor index.ts.
C13_UnsupportedVariantAborts ==
    (/\ run.bindings_type = "TsRuntime"
     /\ \E i \in DOMAIN run.enum.variants : ~Supported(run.enum.variants[i])) =>
        /\ run.files = {}
        /\ run.pc \in {"parsed", "dispatch", "panicked"}
        /\ run.pc = "panicked" => run.err = "Unsupported type for enum variant"

\* C13 witness: a TS run over an enum with a two-item tuple variant after a
\* supported one has aborted.
C13_Witness ==
    /\ run.bindings_type = "TsRuntime"
    /\ run.pc = "panicked"
    /\ run.enum.variants = <<"Struct", "Tuple2">>

\* C14: in the generated native runtime, a guest module that fails to compile
\* or to instantiate makes Runtime::new return an Err(RuntimeError); neither
\* failure aborts the embedding program.
C14_NewReportsRuntimeError ==
    (/\ load.host = "wasmer"
     /\ load.pc # "start"
     /\ (~load.module.compiles \/ ~load.module.links)) =>
        load.outcome = "Err(RuntimeError)"

\* C15: a missing symbol is reported by a typed error and the missing
\* function is not called: the native call returns FunctionNotExported for
\* __fp_gen_<name>, createRuntime raises FPRuntimeError when one of its four
\* symbols is missing, and invoking a declared export the module lacks on the
\* TS runtime raises FPRuntimeError too.
C15_MissingSymbolTypedError ==
    LET instantiated == load.module.compiles /\ load.module.links
        missing == GenExport \notin load.module.exports
    IN  /\ (load.host = "wasmer" /\ load.pc = "called" /\ missing) =>
              /\ load.outcome = "Err(FunctionNotExported(__fp_gen_f))"
              /\ ~load.called
        /\ (/\ load.host = "ts" /\ load.pc # "start" /\ instantiated
            /\ FirstMissing(load.module.exports, 1) # 0) =>
              load.outcome = "FPRuntimeError"
        /\ (load.host = "ts" /\ load.pc = "called" /\ missing) =>
              /\ load.outcome = "FPRuntimeError"
              /\ ~load.called

\* C17: in the TS generator the EnumOptions select one encoding for every
\* kind of variant: untagged gives the payload alone, without variant name or
\* tag; else tag and content give {tag: name, content: payload}; else tag
\* alone gives {tag: name} merged with the payload; else {name: payload}, the
\* bare name for a unit variant.
C17_OneEncodingPerEnum ==
    run.pc \in {"ts_types", "done"} /\ run.bindings_type = "TsRuntime" =>
        \A i \in DOMAIN run.types :
            LET r == run.types[i]
                o == run.enum.opts
                unit == run.enum.variants[i] = "Unit"
            IN  IF o.untagged
                THEN ~r.name /\ r.tag = "None" /\ r.content = "None"
                ELSE IF o.tag_prop_name # "None" /\ o.content_prop_name # "None"
                THEN /\ r.name /\ r.tag = o.tag_prop_name /\ ~r.name_as_key
                     /\ ~unit => (r.content = o.content_prop_name /\ ~r.merged)
                ELSE IF o.tag_prop_name # "None"
                THEN /\ r.name /\ r.tag = o.tag_prop_name /\ r.content = "None"
                     /\ ~unit => r.merged
                ELSE /\ r.name /\ r.tag = "None" /\ r.content = "None"
                     /\ ~unit => r.name_as_key
====
